---- MODULE Spec2Model ----
(***************************************************************************)
(* LPEL: the lifecycle module (LpelInit, CheckConfig, CreateCpusets,       *)
(* LpelThreadAssign, LpelStop, LpelCleanup) and the monitoring module      *)
(* (mon_task_t, mon_stream_t, the dirty list and the trace file).          *)
(*                                                                         *)
(* Two specifications share the variables:                                 *)
(*   Spec     the lifecycle module; the monitoring state stays initial;    *)
(*   MonSpec  the monitoring module; the lifecycle state stays initial.    *)
(***************************************************************************)
EXTENDS Integers, Sequences, FiniteSets, TLC

(***************************************************************************)
(* Bounds of the model.                                                    *)
(***************************************************************************)
MaxWorkers == 3
\* largest num_workers tried
MaxProcWorkers == 2
\* largest proc_workers tried
MaxProcOthers == 1
\* largest proc_others tried
MaxCores == 3
\* largest core count sysconf reports

(***************************************************************************)
(* Values declared in lpel.h, which is not among the sources: the flags    *)
(* are distinct single bits, the error codes distinct and non-zero.        *)
(***************************************************************************)
LPEL_FLAG_PINNED == 1
LPEL_FLAG_EXCLUSIVE == 2
LPEL_ERR_FAIL == -1
LPEL_ERR_INVAL == 1
LPEL_ERR_ASSIGN == 2
LPEL_ERR_EXCL == 3

VARIABLES
  sys_nproc,           \* what sysconf(_SC_NPROCESSORS_ONLN) returns; -1: not available
  sys_capq,            \* the capability query works (linux, LPEL_USE_CAPABILITIES, cap_get_proc != NULL)
  sys_cap,             \* the process holds CAP_SYS_NICE (effective)
  lpel_global_config,  \* _lpel_global_config
  cpuset_workers,      \* static cpu_set_t cpuset_workers
  cpuset_others,       \* static cpu_set_t cpuset_others
  pcl_init,            \* co_thread_init() done and not cleaned up
  workers,             \* worker module: number of initialised worker contexts and their node
  threads,             \* worker id -> its OS thread: st, affinity, rt (sched_setscheduler attempted)
  other,               \* one non-worker thread calling LpelThreadAssign(-1)
  terminate,           \* LpelWorkerTerminate() was called
  phase,               \* "down" | "up" | "stopping": where the application is in the lifecycle
  init_call,           \* the last LpelInit call: [called, cfg, ret]
  mt, ms, monctx, trace, current, tstate,  \* monitoring module, see below
  nevents,             \* stream and debug callbacks made so far (bounds a run)
  blocked_on,          \* monitored task id -> the reason it last blocked with (blocked_on)
  pending,             \* monitored task id -> what its running stream operation does next
  tcb,                 \* task id -> task control block (lpel_task_t)
  readyq,              \* worker id -> its ready queue (taskqueue_t), head first
  mailbox,             \* worker id -> the messages posted to it and not yet applied
  wctx,                \* worker id -> worker context: position in the loop, current task, ...
  stream,              \* stream id -> buffer and the two wait slots
  rd                   \* stream id -> the items its consumer has read so far

lpel_vars == <<sys_nproc, sys_capq, sys_cap, lpel_global_config, cpuset_workers,
               cpuset_others, pcl_init, workers, threads, other, terminate, phase,
               init_call>>
mon_vars == <<mt, ms, monctx, trace, current, tstate, nevents, blocked_on, pending>>
wk_vars == <<tcb, readyq, mailbox, wctx, stream, rd>>
vars == <<lpel_vars, mon_vars, wk_vars>>

(***************************************************************************)
(* Bit operations on the flag words.                                       *)
(***************************************************************************)
RECURSIVE BitAnd(_, _)
BitAnd(a, b) ==
  IF a = 0 \/ b = 0 THEN 0
  ELSE (a % 2) * (b % 2) + 2 * BitAnd(a \div 2, b \div 2)

RECURSIVE BitOr(_, _)
BitOr(a, b) ==
  IF a = 0 THEN b
  ELSE IF b = 0 THEN a
  ELSE (IF a % 2 = 1 \/ b % 2 = 1 THEN 1 ELSE 0) + 2 * BitOr(a \div 2, b \div 2)

(***************************************************************************)
(* Lifecycle module.                                                       *)
(***************************************************************************)
\* #define LPEL_ICFG(f)  ( (_lpel_global_config.flags & (f)) == (f) )
LPEL_ICFG(g, f) == BitAnd(g.flags, f) = f

\* LpelGetNumCores: <<return value, *result>>
LpelGetNumCores ==
  IF sys_nproc = -1 THEN [ret |-> LPEL_ERR_FAIL, result |-> 0]
  ELSE [ret |-> 0, result |-> sys_nproc]

\* LpelCanSetExclusive: <<return value, *result>>
LpelCanSetExclusive ==
  IF sys_capq THEN [ret |-> 0, result |-> sys_cap]
  ELSE [ret |-> LPEL_ERR_FAIL, result |-> FALSE]

\* mutant: the processor count is not compared
CheckConfig_NoCores(g) ==
  IF g.num_workers <= 0 \/ g.proc_workers <= 0 THEN LPEL_ERR_INVAL
  ELSE IF g.proc_others < 0 THEN LPEL_ERR_INVAL
  ELSE IF LPEL_ICFG(g, LPEL_FLAG_EXCLUSIVE)
       THEN IF ~LPEL_ICFG(g, LPEL_FLAG_PINNED) THEN LPEL_ERR_INVAL
            ELSE IF LpelCanSetExclusive.ret = 0 /\ ~LpelCanSetExclusive.result
                 THEN LPEL_ERR_EXCL
                 ELSE 0
       ELSE 0

\* mutant: the permission is checked before the pinned flag
CheckConfig_CapFirst(g) ==
  IF g.num_workers <= 0 \/ g.proc_workers <= 0 THEN LPEL_ERR_INVAL
  ELSE IF g.proc_others < 0 THEN LPEL_ERR_INVAL
  ELSE IF LpelGetNumCores.ret = 0
          /\ g.proc_workers + g.proc_others > LpelGetNumCores.result
       THEN LPEL_ERR_INVAL
  ELSE IF LPEL_ICFG(g, LPEL_FLAG_EXCLUSIVE)
       THEN IF LpelCanSetExclusive.ret = 0 /\ ~LpelCanSetExclusive.result
            THEN LPEL_ERR_EXCL
            ELSE IF ~LPEL_ICFG(g, LPEL_FLAG_PINNED) THEN LPEL_ERR_INVAL
                 ELSE 0
       ELSE 0

\* mutant: the permission to set exclusive is not checked
CheckConfig_NoCap(g) ==
  IF g.num_workers <= 0 \/ g.proc_workers <= 0 THEN LPEL_ERR_INVAL
  ELSE IF g.proc_others < 0 THEN LPEL_ERR_INVAL
  ELSE IF LpelGetNumCores.ret = 0
          /\ g.proc_workers + g.proc_others > LpelGetNumCores.result
       THEN LPEL_ERR_INVAL
  ELSE IF LPEL_ICFG(g, LPEL_FLAG_EXCLUSIVE)
       THEN IF ~LPEL_ICFG(g, LPEL_FLAG_PINNED) THEN LPEL_ERR_INVAL
            ELSE 0
       ELSE 0

\* CheckConfig, on the stored configuration g
CheckConfig(g) ==
  IF g.num_workers <= 0 \/ g.proc_workers <= 0 THEN LPEL_ERR_INVAL
  ELSE IF g.proc_others < 0 THEN LPEL_ERR_INVAL
  ELSE IF LpelGetNumCores.ret = 0
          /\ g.proc_workers + g.proc_others > LpelGetNumCores.result
       THEN LPEL_ERR_INVAL
  ELSE IF LPEL_ICFG(g, LPEL_FLAG_EXCLUSIVE)
       THEN IF ~LPEL_ICFG(g, LPEL_FLAG_PINNED) THEN LPEL_ERR_INVAL
            ELSE IF LpelCanSetExclusive.ret = 0 /\ ~LpelCanSetExclusive.result
                 THEN LPEL_ERR_EXCL
                 ELSE 0
       ELSE 0

\* CreateCpusets: <<cpuset_workers, cpuset_others>>
CreateCpusets(g) ==
  [workers |-> 0 .. (g.proc_workers - 1),
   others  |-> IF g.proc_others = 0
               THEN 0 .. (g.proc_workers - 1)
               ELSE g.proc_workers .. (g.proc_workers + g.proc_others - 1)]

WorkerIds == 0 .. (MaxWorkers - 1)
NoThread == [st |-> "none", affinity |-> {}, rt |-> FALSE]

\* LpelWorkerInit(size, cfg): allocates the worker contexts
LpelWorkerInit(size, node) == [n |-> size, node |-> node]

\* LpelWorkerSpawn(): starts one thread per worker context
LpelWorkerSpawn(n) ==
  [w \in WorkerIds |-> IF w < n THEN [NoThread EXCEPT !.st = "spawned"] ELSE NoThread]

ZeroCfg == [num_workers |-> 0, proc_workers |-> 0, proc_others |-> 0, flags |-> 0, node |-> 0]

Configs ==
  [num_workers : 0 .. MaxWorkers, proc_workers : 0 .. MaxProcWorkers,
   proc_others : -1 .. MaxProcOthers,
   flags : 0 .. BitOr(LPEL_FLAG_PINNED, LPEL_FLAG_EXCLUSIVE), node : {0}]

\* mutant: LpelInit returns without spawning the worker threads
LpelInit_NoSpawn(cfg) ==
  /\ phase = "down"
  /\ lpel_global_config' = cfg
  /\ LET res == CheckConfig(cfg)
     IN  /\ init_call' = [called |-> TRUE, cfg |-> cfg, ret |-> res]
         /\ IF res # 0
            THEN UNCHANGED <<cpuset_workers, cpuset_others, pcl_init, workers,
                             threads, phase>>
            ELSE /\ cpuset_workers' = CreateCpusets(cfg).workers
                 /\ cpuset_others' = CreateCpusets(cfg).others
                 /\ pcl_init' = TRUE
                 /\ workers' = LpelWorkerInit(cfg.num_workers, cfg.node)
                 /\ threads' = threads
                 /\ phase' = "up"
  /\ UNCHANGED <<sys_nproc, sys_capq, sys_cap, other, terminate, mon_vars, wk_vars>>

\* LpelInit(cfg)
LpelInit(cfg) ==
  /\ phase = "down"
  /\ lpel_global_config' = cfg
  /\ LET res == CheckConfig(cfg)
     IN  /\ init_call' = [called |-> TRUE, cfg |-> cfg, ret |-> res]
         /\ IF res # 0
            THEN UNCHANGED <<cpuset_workers, cpuset_others, pcl_init, workers,
                             threads, phase>>
            ELSE /\ cpuset_workers' = CreateCpusets(cfg).workers
                 /\ cpuset_others' = CreateCpusets(cfg).others
                 /\ pcl_init' = TRUE
                 /\ workers' = LpelWorkerInit(cfg.num_workers, cfg.node)
                 /\ threads' = LpelWorkerSpawn(cfg.num_workers)
                 /\ phase' = "up"
  /\ UNCHANGED <<sys_nproc, sys_capq, sys_cap, other, terminate, mon_vars, wk_vars>>

\* mutant: every worker is pinned to core 0
PinnedCore_Zero(core, g) == 0

\* the core a pinned worker is assigned to: CPU_SET( core % cfg->proc_workers, &cpuset)
PinnedCore(core, g) == core % g.proc_workers

\* the test guarding sched_setscheduler: LPEL_ICFG(cfg->flags & LPEL_FLAG_EXCLUSIVE)
MakeNonPreemptible(g) == LPEL_ICFG(g, BitAnd(g.flags, LPEL_FLAG_EXCLUSIVE))

\* LpelThreadAssign(core) by a thread in state th; aff_ok: sched_setaffinity succeeds.
\* The result of sched_setscheduler is ignored by the code (best effort).
LpelThreadAssign(core, th, aff_ok) ==
  LET g == lpel_global_config IN
  IF core = -1
  THEN IF aff_ok
       THEN [ret |-> 0, th |-> [th EXCEPT !.st = "assigned", !.affinity = cpuset_others]]
       ELSE [ret |-> LPEL_ERR_ASSIGN, th |-> [th EXCEPT !.st = "failed"]]
  ELSE IF LPEL_ICFG(g, LPEL_FLAG_PINNED)
       THEN IF aff_ok
            THEN [ret |-> 0,
                  th |-> [th EXCEPT !.st = "assigned",
                                    !.affinity = {PinnedCore(core, g)},
                                    !.rt = MakeNonPreemptible(g)]]
            ELSE [ret |-> LPEL_ERR_ASSIGN, th |-> [th EXCEPT !.st = "failed"]]
       ELSE IF aff_ok
            THEN [ret |-> 0, th |-> [th EXCEPT !.st = "assigned", !.affinity = cpuset_workers]]
            ELSE [ret |-> LPEL_ERR_ASSIGN, th |-> [th EXCEPT !.st = "failed"]]

\* a spawned worker thread starts by calling LpelThreadAssign(wid)
WorkerThreadAssign(w, aff_ok) ==
  /\ phase \in {"up", "stopping"}
  /\ threads[w].st = "spawned"
  /\ threads' = [threads EXCEPT ![w] = LpelThreadAssign(w, threads[w], aff_ok).th]
  /\ UNCHANGED <<sys_nproc, sys_capq, sys_cap, lpel_global_config, cpuset_workers,
                 cpuset_others, pcl_init, workers, other, terminate, phase, init_call,
                 mon_vars, wk_vars>>

\* the non-worker thread calls LpelThreadAssign(-1); it may call again, after a
\* failure or after another LpelInit
OtherThreadAssign(aff_ok) ==
  /\ phase = "up"
  /\ other' = LpelThreadAssign(-1, other, aff_ok).th
  /\ UNCHANGED <<sys_nproc, sys_capq, sys_cap, lpel_global_config, cpuset_workers,
                 cpuset_others, pcl_init, workers, threads, terminate, phase, init_call,
                 mon_vars, wk_vars>>

\* LpelWorkerTerminate(): posts a termination message to the mailbox of every
\* worker context
LpelWorkerTerminate(mb) ==
  [w \in WorkerIds |->
     IF w < workers.n THEN Append(mb[w], [type |-> "terminate", task |-> 0]) ELSE mb[w]]

\* LpelStop(): LpelWorkerTerminate()
LpelStop ==
  /\ phase = "up"
  /\ terminate' = TRUE
  /\ phase' = "stopping"
  /\ mailbox' = LpelWorkerTerminate(mailbox)
  /\ UNCHANGED <<sys_nproc, sys_capq, sys_cap, lpel_global_config, cpuset_workers,
                 cpuset_others, pcl_init, workers, threads, other, init_call, mon_vars,
                 tcb, readyq, wctx, stream, rd>>

\* LpelCleanup(): LpelWorkerCleanup() joins the worker threads and frees the
\* worker contexts; co_thread_cleanup().  A non-worker thread is not touched:
\* it keeps the affinity its last LpelThreadAssign(-1) gave it.
LpelCleanup ==
  /\ phase = "stopping"
  /\ \A w \in WorkerIds : threads[w].st # "spawned"
  /\ threads' = [w \in WorkerIds |-> NoThread]
  /\ workers' = [n |-> 0, node |-> 0]
  /\ terminate' = FALSE
  /\ pcl_init' = FALSE
  /\ phase' = "down"
  /\ mailbox' = [w \in WorkerIds |-> <<>>]
  /\ UNCHANGED <<sys_nproc, sys_capq, sys_cap, lpel_global_config, cpuset_workers,
                 cpuset_others, other, init_call, mon_vars, tcb, readyq, wctx, stream, rd>>

LpelInitState ==
  /\ sys_nproc \in {-1} \cup (1 .. MaxCores)
  /\ sys_capq \in BOOLEAN
  /\ sys_cap \in BOOLEAN
  /\ lpel_global_config = ZeroCfg
  /\ cpuset_workers = {}
  /\ cpuset_others = {}
  /\ pcl_init = FALSE
  /\ workers = [n |-> 0, node |-> 0]
  /\ threads = [w \in WorkerIds |-> NoThread]
  /\ other = NoThread
  /\ terminate = FALSE
  /\ phase = "down"
  /\ init_call = [called |-> FALSE, cfg |-> ZeroCfg, ret |-> 0]

(***************************************************************************)
(* Monitoring module.                                                      *)
(***************************************************************************)
NTasks == 2
\* number of monitored tasks (mon_task_t slots)
MaxMs == 2
\* number of mon_stream_t heap slots
NCtx == 1
\* number of monitoring contexts (workers)
MaxDisp == 3
\* cap on the dispatches of one monitoring context
MaxCounter == 1
\* cap on the item counter of a stream descriptor
MaxSid == 2
\* stream uids are 1 .. MaxSid
MaxEvents == 3
\* cap on the stream callbacks of one run

\* monitoring flags, declared in monitoring.h, which is not among the sources:
\* distinct single bits
LPEL_MON_TASK_TIMES == 1
LPEL_MON_TASK_STREAMS == 2

ST_INUSE == "I"
ST_OPENED == "O"
ST_CLOSED == "C"
ST_REPLACED == "R"
ST_MOVED == 1
ST_WAKEUP == 2
ST_BLOCKON == 4
NULL == 0
ST_DIRTY_END == -1

\* taskstate_t
TASK_RUNNING == "U"
TASK_READY == "R"
TASK_BLOCKED == "B"
TASK_ZOMBIE == "Z"

Tasks == 1 .. NTasks
MsAddrs == 1 .. MaxMs
Ctxs == 1 .. NCtx
Sids == 1 .. MaxSid
\* the streams tried: those with an odd uid are opened for reading, the others for writing
ModeOf(sid) == IF sid % 2 = 1 THEN "r" ELSE "w"
MonFlags == 0 .. BitOr(LPEL_MON_TASK_TIMES, LPEL_MON_TASK_STREAMS)

\* a mon_task_t slot that is not allocated
FreeMt == [alloc |-> FALSE, ctx |-> NULL, tid |-> 0, flags |-> 0, disp |-> 0,
           creat |-> FALSE, dirty_list |-> NULL, blockon |-> ""]
\* a mon_stream_t slot that is not allocated
FreeMs == [alloc |-> FALSE, montask |-> NULL, dirty |-> NULL, mode |-> "r",
           state |-> ST_INUSE, sid |-> 0, counter |-> 0, event_flags |-> 0]

FLAG_TIMES(m) == BitAnd(m.flags, LPEL_MON_TASK_TIMES) # 0
FLAG_STREAMS(m) == BitAnd(m.flags, LPEL_MON_TASK_STREAMS) # 0

\* mutant: the descriptor is linked in even when it is already dirty
MarkDirty_Always(H, a) ==
  LET t == H.ms[a].montask IN
  [ms |-> [H.ms EXCEPT ![a].dirty = H.mt[t].dirty_list],
   mt |-> [H.mt EXCEPT ![t].dirty_list = a]]

\* MarkDirty(ms) on the heap H = [mt, ms]
MarkDirty(H, a) ==
  LET t == H.ms[a].montask IN
  IF H.ms[a].dirty = NULL
  THEN [ms |-> [H.ms EXCEPT ![a].dirty = H.mt[t].dirty_list],
        mt |-> [H.mt EXCEPT ![t].dirty_list = a]]
  ELSE H

\* the "%u,%c,%c,%lu,%c%c%c;" tuple printed for one descriptor
StreamEntry(e) ==
  [sid |-> e.sid, mode |-> e.mode, state |-> e.state, counter |-> e.counter,
   ev |-> <<IF BitAnd(e.event_flags, ST_BLOCKON) # 0 THEN "?" ELSE "-",
            IF BitAnd(e.event_flags, ST_WAKEUP) # 0 THEN "!" ELSE "-",
            IF BitAnd(e.event_flags, ST_MOVED) # 0 THEN "*" ELSE "-">>]

\* mutant: a printed descriptor keeps its state (Opened/Replaced is not reset)
ResetEntry_KeepState(e) ==
  IF e.state = ST_CLOSED THEN FreeMs
  ELSE [e EXCEPT !.dirty = NULL, !.event_flags = 0]

\* the switch of PrintDirtyList: reset a printed descriptor, free a closed one
ResetEntry(e) ==
  IF e.state \in {ST_OPENED, ST_REPLACED}
  THEN [e EXCEPT !.state = ST_INUSE, !.dirty = NULL, !.event_flags = 0]
  ELSE IF e.state = ST_INUSE
  THEN [e EXCEPT !.dirty = NULL, !.event_flags = 0]
  ELSE FreeMs

\* the while loop of PrintDirtyList from entry p on; a well-formed list has at
\* most MaxMs entries, the walk gives up after that many
RECURSIVE PrintDirtyLoop(_, _, _, _)
PrintDirtyLoop(msf, p, out, fuel) ==
  IF p = ST_DIRTY_END \/ p \notin MsAddrs \/ fuel = 0
  THEN [ms |-> msf, out |-> out]
  ELSE PrintDirtyLoop([msf EXCEPT ![p] = ResetEntry(msf[p])], msf[p].dirty,
                      Append(out, StreamEntry(msf[p])), fuel - 1)

\* mutant: the head of the list is not reset after the walk
PrintDirtyList_NoReset(H, t) ==
  LET r == PrintDirtyLoop(H.ms, H.mt[t].dirty_list, <<>>, MaxMs)
  IN  [ms |-> r.ms, mt |-> H.mt, out |-> r.out]

\* PrintDirtyList(mt): the heap afterwards and the tuples printed
PrintDirtyList(H, t) ==
  LET r == PrintDirtyLoop(H.ms, H.mt[t].dirty_list, <<>>, MaxMs)
  IN  [ms |-> r.ms, mt |-> [H.mt EXCEPT ![t].dirty_list = ST_DIRTY_END], out |-> r.out]

Heap == [mt |-> mt, ms |-> ms]

\* LpelMonTaskCreate(tid, name, flags): the record it returns
LpelMonTaskCreate(tid, flags) ==
  [alloc |-> TRUE, ctx |-> NULL, tid |-> tid, flags |-> flags, disp |-> 0,
   creat |-> BitAnd(flags, LPEL_MON_TASK_TIMES) # 0,
   dirty_list |-> ST_DIRTY_END, blockon |-> ""]

\* LpelMonContextCreate(wid, name): the file is opened, nothing is written
LpelMonContextCreate(wid) == [wid |-> wid, disp |-> 0, alloc |-> TRUE]

\* the stream operation of a task is between two callbacks: cb is what it does
\* next on the descriptor ms ("moved": it calls LpelMonStreamMoved, "block":
\* it calls LpelTaskBlock); NoCall: the task is in no stream operation
NoCall == [cb |-> "", ms |-> NULL]

\* LpelMonTaskAssign(mt, ctx)
LpelMonTaskAssign(m, c) == [m EXCEPT !.ctx = c]

\* mutant: the dispatch counter of the task is not incremented
LpelMonTaskStart_NoCount(t) ==
  /\ tstate[t] = TASK_READY
  /\ mt[t].ctx # NULL
  /\ current[mt[t].ctx] = NULL
  /\ monctx[mt[t].ctx].disp < MaxDisp
  /\ mt' = [mt EXCEPT ![t].blockon = "a"]
  /\ monctx' = [monctx EXCEPT ![mt[t].ctx].disp = @ + 1]
  /\ current' = [current EXCEPT ![mt[t].ctx] = t]
  /\ tstate' = [tstate EXCEPT ![t] = TASK_RUNNING]
  /\ UNCHANGED <<ms, trace, nevents, blocked_on, pending, lpel_vars, wk_vars>>

\* LpelMonTaskStart(mt): the worker dispatches the Ready task t
LpelMonTaskStart(t) ==
  /\ tstate[t] = TASK_READY
  /\ mt[t].ctx # NULL
  /\ current[mt[t].ctx] = NULL
  /\ monctx[mt[t].ctx].disp < MaxDisp
  /\ mt' = [mt EXCEPT ![t].blockon = "a", ![t].disp = @ + 1]
  /\ monctx' = [monctx EXCEPT ![mt[t].ctx].disp = @ + 1]
  /\ current' = [current EXCEPT ![mt[t].ctx] = t]
  /\ tstate' = [tstate EXCEPT ![t] = TASK_RUNNING]
  /\ UNCHANGED <<ms, trace, nevents, blocked_on, pending, lpel_vars, wk_vars>>

\* mutant: the creation time is printed with every execution time
TraceLine_CreatAlways(m, state, list) ==
  [tid |-> m.tid, disp |-> m.disp, st |-> state,
   sub |-> IF state = TASK_BLOCKED THEN m.blockon ELSE "",
   et |-> FLAG_TIMES(m),
   creat |-> FLAG_TIMES(m),
   streams |-> FLAG_STREAMS(m),
   list |-> list]

\* the line LpelMonTaskStop prints, list being the tuples of the dirty list
TraceLine(m, state, list) ==
  [tid |-> m.tid, disp |-> m.disp, st |-> state,
   sub |-> IF state = TASK_BLOCKED THEN m.blockon ELSE "",
   et |-> FLAG_TIMES(m),
   creat |-> FLAG_TIMES(m) /\ state = TASK_ZOMBIE,
   streams |-> FLAG_STREAMS(m),
   list |-> list]

\* what LpelMonTaskStop(mt, state) does on the heap H for task t: the line is
\* written, the dirty list is printed and reset
MonTaskStop(H, t, state) ==
  LET c == H.mt[t].ctx
      r == IF FLAG_STREAMS(H.mt[t]) THEN PrintDirtyList(H, t)
           ELSE [ms |-> H.ms, mt |-> H.mt, out |-> <<>>]
  IN  /\ trace' = [trace EXCEPT ![c] = Append(@, TraceLine(H.mt[t], state, r.out))]
      /\ ms' = r.ms
      /\ mt' = r.mt
      /\ current' = [current EXCEPT ![c] = NULL]
      /\ tstate' = [tstate EXCEPT ![t] = state]

\* LpelMonTaskStop(mt, state): the running task t came back to its worker in
\* state (Ready after a yield, Zombie after its body ended)
LpelMonTaskStop(t, state) ==
  /\ tstate[t] = TASK_RUNNING
  /\ current[mt[t].ctx] = t
  /\ pending[t] = NoCall
  /\ MonTaskStop(Heap, t, state)
  /\ UNCHANGED <<monctx, nevents, blocked_on, pending, lpel_vars, wk_vars>>

\* LpelMonTaskDestroy(mt): the worker destroys a Zombie task after its last line
LpelMonTaskDestroy(t) ==
  /\ tstate[t] = TASK_ZOMBIE
  /\ mt' = [mt EXCEPT ![t] = FreeMt]
  /\ tstate' = [tstate EXCEPT ![t] = "gone"]
  /\ UNCHANGED <<ms, monctx, trace, current, nevents, blocked_on, pending, lpel_vars, wk_vars>>

\* a Blocked task is made Ready again by its peer (LpelTaskUnblock)
LpelTaskUnblock(t) ==
  /\ tstate[t] = TASK_BLOCKED
  /\ tstate' = [tstate EXCEPT ![t] = TASK_READY]
  /\ UNCHANGED <<mt, ms, monctx, trace, current, nevents, blocked_on, pending, lpel_vars, wk_vars>>

\* the address malloc returns: the lowest free slot
Malloc == CHOOSE a \in MsAddrs : ~ms[a].alloc /\ \A b \in MsAddrs : b < a => ms[b].alloc

\* LpelMonStreamOpen(mt, sid, mode) by the running task t; without
\* LPEL_MON_TASK_STREAMS it returns NULL and nothing changes
LpelMonStreamOpen(t, sid, mode) ==
  /\ tstate[t] = TASK_RUNNING
  /\ pending[t] = NoCall
  /\ \E a \in MsAddrs : ~ms[a].alloc
  /\ IF FLAG_STREAMS(mt[t])
     THEN LET a == Malloc
              H1 == [mt |-> mt,
                     ms |-> [ms EXCEPT ![a] = [alloc |-> TRUE, montask |-> t,
                                               dirty |-> NULL, mode |-> mode,
                                               state |-> ST_OPENED, sid |-> sid,
                                               counter |-> 0, event_flags |-> 0]]]
              H2 == MarkDirty(H1, a)
          IN  /\ ms' = H2.ms
              /\ mt' = H2.mt
              /\ nevents < MaxEvents
              /\ nevents' = nevents + 1
     ELSE UNCHANGED <<ms, mt, nevents>>
  /\ UNCHANGED <<monctx, trace, current, tstate, blocked_on, pending, lpel_vars, wk_vars>>

\* the descriptor a is live and its task is running: the task works on it
OwnerRuns(a) ==
  /\ ms[a].alloc
  /\ tstate[ms[a].montask] = TASK_RUNNING

\* LpelMonStreamClose(ms)
LpelMonStreamClose(a) ==
  /\ OwnerRuns(a)
  /\ pending[ms[a].montask] = NoCall
  /\ LET H2 == MarkDirty([mt |-> mt, ms |-> [ms EXCEPT ![a].state = ST_CLOSED]], a)
     IN  ms' = H2.ms /\ mt' = H2.mt
  /\ nevents < MaxEvents
  /\ nevents' = nevents + 1
  /\ UNCHANGED <<monctx, trace, current, tstate, blocked_on, pending, lpel_vars, wk_vars>>

\* LpelMonStreamReplace(ms, new_sid)
LpelMonStreamReplace(a, new_sid) ==
  /\ OwnerRuns(a)
  /\ pending[ms[a].montask] = NoCall
  /\ LET H2 == MarkDirty([mt |-> mt,
                          ms |-> [ms EXCEPT ![a].state = ST_REPLACED,
                                            ![a].sid = new_sid]], a)
     IN  ms' = H2.ms /\ mt' = H2.mt
  /\ nevents < MaxEvents
  /\ nevents' = nevents + 1
  /\ UNCHANGED <<monctx, trace, current, tstate, blocked_on, pending, lpel_vars, wk_vars>>

\* mutant: the moved event is recorded, the descriptor is not marked dirty
LpelMonStreamMoved_NoMark(H, a) ==
  [mt |-> H.mt,
   ms |-> [H.ms EXCEPT ![a].counter = @ + 1,
                       ![a].event_flags = BitOr(@, ST_MOVED)]]

\* LpelMonStreamMoved(ms, item) on the heap H = [mt, ms]
LpelMonStreamMoved(H, a) ==
  MarkDirty([mt |-> H.mt,
             ms |-> [H.ms EXCEPT ![a].counter = @ + 1,
                                 ![a].event_flags = BitOr(@, ST_MOVED)]], a)

\* LpelMonStreamWakeup(ms) on the heap H: the event is recorded, the descriptor
\* is not marked dirty ("MarkDirty() not needed, as Moved() event is called
\* anyway")
LpelMonStreamWakeup(H, a) ==
  [mt |-> H.mt, ms |-> [H.ms EXCEPT ![a].event_flags = BitOr(@, ST_WAKEUP)]]

\* LpelMonStreamBlockon(ms) on the heap H = [mt, ms]
LpelMonStreamBlockon(H, a) ==
  LET H2 == MarkDirty([mt |-> H.mt,
                       ms |-> [H.ms EXCEPT ![a].event_flags = BitOr(@, ST_BLOCKON)]], a)
      t == H.ms[a].montask
  IN  [ms |-> H2.ms,
       mt |-> [H2.mt EXCEPT ![t].blockon = IF H.ms[a].mode = "r" THEN "i" ELSE "o"]]

\* the running owner of the descriptor a has moved an item over it: the stream
\* operation reports LpelMonStreamMoved, as its only callback or after the
\* LpelMonStreamWakeup it reported on a
StreamMoves(a) ==
  /\ OwnerRuns(a)
  /\ pending[ms[a].montask] \in {NoCall, [cb |-> "moved", ms |-> a]}
  /\ ms[a].counter < MaxCounter
  /\ LET H2 == LpelMonStreamMoved(Heap, a)
     IN  ms' = H2.ms /\ mt' = H2.mt
  /\ nevents < MaxEvents
  /\ nevents' = nevents + 1
  /\ pending' = [pending EXCEPT ![ms[a].montask] = NoCall]
  /\ UNCHANGED <<monctx, trace, current, tstate, blocked_on, lpel_vars, wk_vars>>

\* the running owner of the descriptor a has moved an item over it and woken
\* the peer waiting on the stream: the stream operation reports
\* LpelMonStreamWakeup, which returns to it; it calls LpelMonStreamMoved on the
\* same descriptor next, before the task can do anything else
StreamWakes(a) ==
  /\ OwnerRuns(a)
  /\ pending[ms[a].montask] = NoCall
  /\ ms[a].counter < MaxCounter
  /\ LET H2 == LpelMonStreamWakeup(Heap, a)
     IN  ms' = H2.ms /\ mt' = H2.mt
  /\ nevents + 1 < MaxEvents
  /\ nevents' = nevents + 1
  /\ pending' = [pending EXCEPT ![ms[a].montask] = [cb |-> "moved", ms |-> a]]
  /\ UNCHANGED <<monctx, trace, current, tstate, blocked_on, lpel_vars, wk_vars>>

\* the line "<ts> *** <text>" LpelMonDebug prints: it names no task and no dispatch
DebugLine ==
  [tid |-> NULL, disp |-> 0, st |-> "***", sub |-> "", et |-> FALSE, creat |-> FALSE,
   streams |-> FALSE, list |-> <<>>]

\* LpelMonDebug(mon, fmt, ...): the line is appended to the file of context c
\* (and flushed), at any time, whatever the debug level
LpelMonDebug(c) ==
  /\ monctx[c].alloc
  /\ nevents < MaxEvents
  /\ nevents' = nevents + 1
  /\ trace' = [trace EXCEPT ![c] = Append(@, DebugLine)]
  /\ UNCHANGED <<mt, ms, monctx, current, tstate, blocked_on, pending, lpel_vars, wk_vars>>


\* LpelMonContextDestroy(mon): the worker of context c has destroyed its tasks
\* and leaves; the file is closed and the context freed
LpelMonContextDestroy(c) ==
  /\ monctx[c].alloc
  /\ current[c] = NULL
  /\ \A t \in Tasks : tstate[t] = "gone"
  /\ monctx' = [monctx EXCEPT ![c].alloc = FALSE]
  /\ UNCHANGED <<mt, ms, trace, current, tstate, nevents, blocked_on, pending, lpel_vars, wk_vars>>

\* the monitoring state while no task has been created
MonIdleState ==
  /\ mt = [t \in Tasks |-> FreeMt]
  /\ ms = [a \in MsAddrs |-> FreeMs]
  /\ monctx = [c \in Ctxs |-> LpelMonContextCreate(c - 1)]
  /\ trace = [c \in Ctxs |-> <<>>]
  /\ current = [c \in Ctxs |-> NULL]
  /\ tstate = [t \in Tasks |-> "gone"]
  /\ nevents = 0
  /\ blocked_on = [t \in Tasks |-> ""]
  /\ pending = [t \in Tasks |-> NoCall]

(***************************************************************************)
(* Workers, tasks and streams.  worker.c, task.c, stream.c and             *)
(* taskqueue.c are not among the sources: this part follows sections 3,    *)
(* 4.1 to 4.3 and 5 of the specification.  One consumer task reads NProd   *)
(* streams, each written by its own producer task; every task is owned by  *)
(* one of NWk workers.  The tasks are not monitored (mon = NULL).          *)
(***************************************************************************)
NWk == 2
\* number of worker contexts that run tasks
NProd == 2
\* number of producer tasks, each with its own stream
StreamCap == 2
\* capacity of every stream
MaxItems == 3
\* items each producer writes before it exits
MaxYields == 1
\* cap on the explicit yields of one run

\* taskstate_t and taskstate_blocked_t
TASK_CREATED == "C"
BLOCKED_ON_INPUT == "i"
BLOCKED_ON_OUTPUT == "o"
BLOCKED_ON_ANYIN == "a"

Wks == 0 .. (NWk - 1)
Streams == 1 .. NProd
Consumer == 1
Producers == 2 .. (NProd + 1)
WTasks == {Consumer} \cup Producers
\* the stream a producer task writes
StreamOf(t) == t - 1

\* a task control block after LpelTaskCreate(worker, ...): n counts the items a
\* producer has written, yields its explicit yields, wakes the Blocked -> Ready
\* transitions of its current wait, run whether LpelTaskRun was called
LpelTaskCreate(worker) ==
  [state |-> TASK_CREATED, blocked_on |-> "", worker_context |-> worker,
   wakeup_sd |-> NULL, poll_token |-> 0, n |-> 0, yields |-> 0, wakes |-> 0,
   run |-> FALSE]

\* a worker context after LpelWorkerInit: pc is its position in the dispatch
\* loop ("loop": steps 1 to 4, "run": inside a task, "ret": step 5, "exit",
\* "abort": the process was aborted by a failed assertion)
WorkerCtx ==
  [pc |-> "loop", cur |-> NULL, terminate |-> FALSE, num_tasks |-> 0]

\* a stream after creation: the ring buffer as a sequence, oldest item first, the
\* slot of a blocked producer and the slot of a blocked consumer
StreamCreate == [buf |-> <<>>, prod_wait |-> NULL, cons_wait |-> NULL]

\* TaskqueueAppend(tq, t)
TaskqueueAppend(tq, t) == Append(tq, t)

\* the task t is executing on its worker
Runs(t) ==
  /\ tcb[t].state = TASK_RUNNING
  /\ wctx[tcb[t].worker_context].pc = "run"
  /\ wctx[tcb[t].worker_context].cur = t
  /\ tcb[t].blocked_on # BLOCKED_ON_ANYIN

WkState == [tcb |-> tcb, readyq |-> readyq, mailbox |-> mailbox]

\* mutant: the poll token is ignored, every peer delivers its wakeup
DeliverWakeup_NoToken(cw, w, s) ==
  LET b == [tcb[w] EXCEPT !.poll_token = @ + 1, !.wakeup_sd = s,
                          !.state = TASK_READY, !.wakes = @ + 1]
  IN  IF b.worker_context = cw
      THEN [tcb |-> [tcb EXCEPT ![w] = b],
            readyq |-> [readyq EXCEPT ![cw] = TaskqueueAppend(@, w)],
            mailbox |-> mailbox]
      ELSE [tcb |-> [tcb EXCEPT ![w] = b],
            readyq |-> readyq,
            mailbox |-> [mailbox EXCEPT ![b.worker_context] =
                           Append(@, [type |-> "wakeup", task |-> w])]]

\* mutant: the peer appends the woken task to the ready queue of its owner itself
DeliverWakeup_Direct(cw, w, s) ==
  LET b == [tcb[w] EXCEPT !.poll_token = @ + 1, !.wakeup_sd = s,
                          !.state = TASK_READY, !.wakes = @ + 1]
  IN  IF tcb[w].blocked_on = BLOCKED_ON_ANYIN /\ tcb[w].poll_token # 0
      THEN WkState
      ELSE [tcb |-> [tcb EXCEPT ![w] = b],
            readyq |-> [readyq EXCEPT ![b.worker_context] = TaskqueueAppend(@, w)],
            mailbox |-> mailbox]

\* deliver wakeup to task w for stream s, by a task running on worker cw
\* (4.3, LpelTaskUnblock): during an any-in wait only the peer that moves the
\* poll token from zero delivers, the others leave the task alone; the peer
\* bumps the token, sets wakeup_sd and sets the state to Ready, then appends a
\* task of its own worker to the local ready queue and posts a message for a
\* task of another worker to the mailbox of its owner
DeliverWakeup(cw, w, s) ==
  LET b == [tcb[w] EXCEPT !.poll_token = @ + 1, !.wakeup_sd = s,
                          !.state = TASK_READY, !.wakes = @ + 1]
  IN  IF tcb[w].blocked_on = BLOCKED_ON_ANYIN /\ tcb[w].poll_token # 0
      THEN WkState
      ELSE IF b.worker_context = cw
      THEN [tcb |-> [tcb EXCEPT ![w] = b],
            readyq |-> [readyq EXCEPT ![cw] = TaskqueueAppend(@, w)],
            mailbox |-> mailbox]
      ELSE [tcb |-> [tcb EXCEPT ![w] = b],
            readyq |-> readyq,
            mailbox |-> [mailbox EXCEPT ![b.worker_context] =
                           Append(@, [type |-> "wakeup", task |-> w])]]

\* LpelTaskRun(t): assign(t, wid) posts an "assign" message to the owner; the
\* application thread runs the tasks one after the other, in the order of their ids
LpelTaskRun(t) ==
  /\ phase = "up"
  /\ \A w \in Wks : wctx[w].pc # "abort"
  /\ tcb[t].state = TASK_CREATED
  /\ ~tcb[t].run
  /\ \A u \in WTasks : u < t => tcb[u].run
  /\ tcb' = [tcb EXCEPT ![t].run = TRUE]
  /\ mailbox' = [mailbox EXCEPT ![tcb[t].worker_context] =
                   Append(@, [type |-> "assign", task |-> t])]
  /\ UNCHANGED <<readyq, wctx, stream, rd, lpel_vars, mon_vars>>

\* mutant: a write to a full stream overwrites the newest item instead of blocking
StreamWrite_Overwrite(t) ==
  LET w == tcb[t].worker_context
      s == StreamOf(t)
      c == stream[s].cons_wait
      d == IF c # NULL THEN DeliverWakeup(w, c, s) ELSE WkState
  IN  /\ t \in Producers
      /\ Runs(t)
      /\ tcb[t].n < MaxItems
      /\ tcb' = [d.tcb EXCEPT ![t].n = @ + 1, ![t].blocked_on = "",
                                      ![t].wakeup_sd = NULL]
      /\ readyq' = d.readyq
      /\ mailbox' = d.mailbox
      /\ stream' = [stream EXCEPT
                      ![s].buf = IF Len(@) < StreamCap THEN Append(@, tcb[t].n + 1)
                                 ELSE [@ EXCEPT ![Len(@)] = tcb[t].n + 1],
                      ![s].cons_wait = NULL]
      /\ UNCHANGED <<wctx, rd, lpel_vars, mon_vars>>

\* write by the producer t (4.3 Write): with space, enqueue the item, and clear
\* the consumer-waiting slot and wake the consumer held there; without, block
\* on output in the producer-waiting slot and yield to the worker
StreamWrite(t) ==
  LET w == tcb[t].worker_context
      s == StreamOf(t)
      c == stream[s].cons_wait
      d == IF c # NULL THEN DeliverWakeup(w, c, s) ELSE WkState
  IN  /\ t \in Producers
      /\ Runs(t)
      /\ tcb[t].n < MaxItems
      /\ IF Len(stream[s].buf) < StreamCap
         THEN /\ tcb' = [d.tcb EXCEPT ![t].n = @ + 1, ![t].blocked_on = "",
                                      ![t].wakeup_sd = NULL]
              /\ readyq' = d.readyq
              /\ mailbox' = d.mailbox
              /\ stream' = [stream EXCEPT ![s].buf = Append(@, tcb[t].n + 1),
                                          ![s].cons_wait = NULL]
              /\ UNCHANGED wctx
         ELSE /\ tcb' = [tcb EXCEPT ![t].state = TASK_BLOCKED,
                                    ![t].blocked_on = BLOCKED_ON_OUTPUT,
                                    ![t].poll_token = 0,
                                    ![t].wakeup_sd = NULL,
                                    ![t].wakes = 0]
              /\ stream' = [stream EXCEPT ![s].prod_wait = t]
              /\ wctx' = [wctx EXCEPT ![w].pc = "ret"]
              /\ UNCHANGED <<readyq, mailbox>>
      /\ UNCHANGED <<rd, lpel_vars, mon_vars>>

\* mutant: a read takes the item and leaves a blocked producer in its slot
StreamRead_NoWakeup(t, s) ==
  LET w == tcb[t].worker_context
  IN  /\ t = Consumer
      /\ Runs(t)
      /\ Len(rd[s]) < MaxItems
      /\ IF stream[s].buf # <<>>
         THEN /\ stream' = [stream EXCEPT ![s].buf = Tail(@)]
              /\ rd' = [rd EXCEPT ![s] = Append(@, Head(stream[s].buf))]
              /\ tcb' = [tcb EXCEPT ![t].blocked_on = "", ![t].wakeup_sd = NULL]
              /\ UNCHANGED <<readyq, mailbox, wctx>>
         ELSE /\ tcb' = [tcb EXCEPT ![t].state = TASK_BLOCKED,
                                    ![t].blocked_on = BLOCKED_ON_INPUT,
                                    ![t].poll_token = 0,
                                    ![t].wakeup_sd = NULL,
                                    ![t].wakes = 0]
              /\ stream' = [stream EXCEPT ![s].cons_wait = t]
              /\ wctx' = [wctx EXCEPT ![w].pc = "ret"]
              /\ UNCHANGED <<readyq, mailbox, rd>>
      /\ UNCHANGED <<lpel_vars, mon_vars>>

\* read of stream s by the consumer t (4.3 Read): with an item, take the oldest,
\* and clear the producer-waiting slot and wake the producer held there;
\* without, block on input in the consumer-waiting slot and yield to the worker
StreamRead(t, s) ==
  LET w == tcb[t].worker_context
      p == stream[s].prod_wait
      d == IF p # NULL THEN DeliverWakeup(w, p, s) ELSE WkState
  IN  /\ t = Consumer
      /\ Runs(t)
      /\ Len(rd[s]) < MaxItems
      /\ IF stream[s].buf # <<>>
         THEN /\ stream' = [stream EXCEPT ![s].buf = Tail(@), ![s].prod_wait = NULL]
              /\ rd' = [rd EXCEPT ![s] = Append(@, Head(stream[s].buf))]
              /\ tcb' = [d.tcb EXCEPT ![t].blocked_on = "", ![t].wakeup_sd = NULL]
              /\ readyq' = d.readyq
              /\ mailbox' = d.mailbox
              /\ UNCHANGED wctx
         ELSE /\ tcb' = [tcb EXCEPT ![t].state = TASK_BLOCKED,
                                    ![t].blocked_on = BLOCKED_ON_INPUT,
                                    ![t].poll_token = 0,
                                    ![t].wakeup_sd = NULL,
                                    ![t].wakes = 0]
              /\ stream' = [stream EXCEPT ![s].cons_wait = t]
              /\ wctx' = [wctx EXCEPT ![w].pc = "ret"]
              /\ UNCHANGED <<readyq, mailbox, rd>>
      /\ UNCHANGED <<lpel_vars, mon_vars>>

\* any-in wait of the consumer t on all its read endpoints (4.3 Poll): the task
\* starts the wait with its poll token at zero, registers itself in the
\* consumer-waiting slot of every endpoint with BlockedOnAny and yields
StreamPoll(t) ==
  LET w == tcb[t].worker_context
  IN  /\ t = Consumer
      /\ Runs(t)
      /\ \E s \in Streams : Len(rd[s]) < MaxItems
      /\ tcb' = [tcb EXCEPT ![t].state = TASK_BLOCKED,
                            ![t].blocked_on = BLOCKED_ON_ANYIN,
                            ![t].poll_token = 0,
                            ![t].wakeup_sd = NULL,
                            ![t].wakes = 0]
      /\ stream' = [s \in Streams |-> [stream[s] EXCEPT !.cons_wait = t]]
      /\ wctx' = [wctx EXCEPT ![w].pc = "ret"]
      /\ UNCHANGED <<readyq, mailbox, rd, lpel_vars, mon_vars>>

\* the consumer resumes from its any-in wait: it inspects wakeup_sd, clears it
\* and unregisters itself from the other endpoints
StreamPollResume(t) ==
  /\ tcb[t].state = TASK_RUNNING
  /\ wctx[tcb[t].worker_context].pc = "run"
  /\ wctx[tcb[t].worker_context].cur = t
  /\ tcb[t].blocked_on = BLOCKED_ON_ANYIN
  /\ tcb' = [tcb EXCEPT ![t].blocked_on = "", ![t].wakeup_sd = NULL]
  /\ stream' = [s \in Streams |->
                  IF s # tcb[t].wakeup_sd /\ stream[s].cons_wait = t
                  THEN [stream[s] EXCEPT !.cons_wait = NULL] ELSE stream[s]]
  /\ UNCHANGED <<readyq, mailbox, wctx, rd, lpel_vars, mon_vars>>

\* the explicit yields made so far
RECURSIVE SumYields(_)
SumYields(T) ==
  IF T = {} THEN 0
  ELSE LET t == CHOOSE u \in T : TRUE IN tcb[t].yields + SumYields(T \ {t})

Yields == SumYields(WTasks)

\* the body of task t has not moved an item yet
AtStart(t) ==
  IF t = Consumer THEN \A s \in Streams : rd[s] = <<>>
  ELSE tcb[t].n = 0

\* LpelTaskYield(t): the task gives up the worker and stays Ready; the bodies
\* modelled yield before their first item only
LpelTaskYield(t) ==
  /\ Runs(t)
  /\ AtStart(t)
  /\ Yields < MaxYields
  /\ tcb' = [tcb EXCEPT ![t].state = TASK_READY, ![t].yields = @ + 1,
                        ![t].blocked_on = "", ![t].wakeup_sd = NULL]
  /\ wctx' = [wctx EXCEPT ![tcb[t].worker_context].pc = "ret"]
  /\ UNCHANGED <<readyq, mailbox, stream, rd, lpel_vars, mon_vars>>

\* the body of task t has done its work: a producer has written MaxItems items,
\* the consumer has read them all
BodyDone(t) ==
  IF t = Consumer THEN \A s \in Streams : Len(rd[s]) = MaxItems
  ELSE tcb[t].n = MaxItems

\* LpelTaskExit(t): the body returns, the task becomes Zombie and switches back
\* to the worker
LpelTaskExit(t) ==
  /\ Runs(t)
  /\ BodyDone(t)
  /\ tcb' = [tcb EXCEPT ![t].state = TASK_ZOMBIE, ![t].blocked_on = "",
                        ![t].wakeup_sd = NULL]
  /\ wctx' = [wctx EXCEPT ![tcb[t].worker_context].pc = "ret"]
  /\ UNCHANGED <<readyq, mailbox, stream, rd, lpel_vars, mon_vars>>

\* the worker w applies one message (4.2 step 1) to its part S of the state:
\* it records termination, or marks the assigned or woken task Ready and
\* appends it to its ready queue
ApplyMsg(S, w, m) ==
  IF m.type = "terminate"
  THEN [S EXCEPT !.wc.terminate = TRUE]
  ELSE IF m.type = "assign"
  THEN [S EXCEPT !.tcb[m.task].state = TASK_READY,
                 !.rq = TaskqueueAppend(@, m.task),
                 !.wc.num_tasks = @ + 1]
  ELSE [S EXCEPT !.tcb[m.task].state = TASK_READY,
                 !.rq = TaskqueueAppend(@, m.task)]

RECURSIVE ApplyMsgs(_, _, _)
ApplyMsgs(S, w, msgs) ==
  IF msgs = <<>> THEN S ELSE ApplyMsgs(ApplyMsg(S, w, Head(msgs)), w, Tail(msgs))

\* step 1 of the dispatch loop: the worker drains its mailbox
WorkerDrain(w) ==
  /\ wctx[w].pc = "loop"
  /\ mailbox[w] # <<>>
  /\ LET S == ApplyMsgs([tcb |-> tcb, rq |-> readyq[w], wc |-> wctx[w]], w, mailbox[w])
     IN  /\ tcb' = S.tcb
         /\ readyq' = [readyq EXCEPT ![w] = S.rq]
         /\ wctx' = [wctx EXCEPT ![w] = S.wc]
  /\ mailbox' = [mailbox EXCEPT ![w] = <<>>]
  /\ UNCHANGED <<stream, rd, lpel_vars, mon_vars>>

\* mutant: the worker exits as soon as termination was requested
WorkerExit_Early(w) ==
  /\ wctx[w].pc = "loop"
  /\ mailbox[w] = <<>>
  /\ wctx[w].terminate
  /\ wctx' = [wctx EXCEPT ![w].pc = "exit"]
  /\ UNCHANGED <<tcb, readyq, mailbox, stream, rd, lpel_vars, mon_vars>>

\* step 2: with the mailbox drained, the ready queue empty, termination
\* requested and no live task of its own, the worker leaves the loop
WorkerExit(w) ==
  /\ wctx[w].pc = "loop"
  /\ mailbox[w] = <<>>
  /\ readyq[w] = <<>>
  /\ wctx[w].terminate
  /\ wctx[w].num_tasks = 0
  /\ wctx' = [wctx EXCEPT ![w].pc = "exit"]
  /\ UNCHANGED <<tcb, readyq, mailbox, stream, rd, lpel_vars, mon_vars>>

\* the worker contexts after the assertion of a worker failed: the failure is
\* fatal, no thread of the process takes another step
Abort == [w \in WorkerIds |-> [wctx[w] EXCEPT !.pc = "abort"]]

\* the process was aborted by a failed assertion
Aborted == \E w \in Wks : wctx[w].pc = "abort"

\* step 4: with the mailbox drained, the worker pops the head task, takes it
\* from Ready to Running and switches into it (step 3, the wait on an empty
\* mailbox, is the state in which no step of the worker is enabled); a head
\* task that is not Ready (it blocked again, or was destroyed, after it was
\* linked) violates a worker-internal invariant: the assertion is fatal (7)
WorkerDispatch(w) ==
  /\ wctx[w].pc = "loop"
  /\ mailbox[w] = <<>>
  /\ readyq[w] # <<>>
  /\ LET t == Head(readyq[w])
     IN  IF tcb[t].state = TASK_READY
         THEN /\ tcb' = [tcb EXCEPT ![t].state = TASK_RUNNING]
              /\ wctx' = [wctx EXCEPT ![w].pc = "run", ![w].cur = t]
         ELSE /\ wctx' = Abort
              /\ UNCHANGED tcb
  /\ readyq' = [readyq EXCEPT ![w] = Tail(@)]
  /\ UNCHANGED <<mailbox, stream, rd, lpel_vars, mon_vars>>

\* step 5: the task came back: a Zombie is destroyed, a Ready task is appended
\* to the local queue again, a Blocked task stays in its wait slot
WorkerReturn(w) ==
  LET t == wctx[w].cur
  IN  /\ wctx[w].pc = "ret"
      /\ IF tcb[t].state = TASK_ZOMBIE
         THEN /\ tcb' = [tcb EXCEPT ![t].state = "gone"]
              /\ wctx' = [wctx EXCEPT ![w].pc = "loop", ![w].cur = NULL,
                                      ![w].num_tasks = @ - 1]
              /\ UNCHANGED readyq
         ELSE IF tcb[t].state = TASK_READY
         THEN /\ readyq' = [readyq EXCEPT ![w] = TaskqueueAppend(@, t)]
              /\ wctx' = [wctx EXCEPT ![w].pc = "loop", ![w].cur = NULL]
              /\ UNCHANGED tcb
         ELSE /\ wctx' = [wctx EXCEPT ![w].pc = "loop", ![w].cur = NULL]
              /\ UNCHANGED <<tcb, readyq>>
      /\ UNCHANGED <<mailbox, stream, rd, lpel_vars, mon_vars>>

\* a step of the task t
TaskStep(t) ==
  \/ StreamWrite(t)
  \/ \E s \in Streams : StreamRead(t, s)
  \/ StreamPoll(t)
  \/ StreamPollResume(t)
  \/ LpelTaskYield(t)
  \/ LpelTaskExit(t)

\* a step of the thread of worker w: of its dispatch loop or of the task it runs
ThreadStep(w) ==
  \/ WorkerDrain(w)
  \/ WorkerExit(w)
  \/ WorkerDispatch(w)
  \/ WorkerReturn(w)
  \/ \E t \in WTasks : tcb[t].worker_context = w /\ TaskStep(t)

\* the worker part of the state while no task exists
WkIdleState ==
  /\ tcb = [t \in WTasks |-> [LpelTaskCreate(0) EXCEPT !.state = "gone"]]
  /\ readyq = [w \in WorkerIds |-> <<>>]
  /\ mailbox = [w \in WorkerIds |-> <<>>]
  /\ wctx = [w \in WorkerIds |-> WorkerCtx]
  /\ stream = [s \in Streams |-> StreamCreate]
  /\ rd = [s \in Streams |-> <<>>]

\* the tasks and streams are created, no task has been run yet; the worker
\* ids are interchangeable, so the consumer is put on worker 0
WkInitState ==
  /\ \E ow \in [WTasks -> Wks] :
       /\ ow[Consumer] = 0
       /\ tcb = [t \in WTasks |-> LpelTaskCreate(ow[t])]
  /\ readyq = [w \in WorkerIds |-> <<>>]
  /\ mailbox = [w \in WorkerIds |-> <<>>]
  /\ wctx = [w \in WorkerIds |-> WorkerCtx]
  /\ stream = [s \in Streams |-> StreamCreate]
  /\ rd = [s \in Streams |-> <<>>]

\* the configuration the workers run under
WorkCfg ==
  [num_workers |-> NWk, proc_workers |-> 1, proc_others |-> 0, flags |-> 0, node |-> 0]

\* the lifecycle state after LpelInit(WorkCfg) returned 0 on a one-core machine
LpelUpState ==
  /\ sys_nproc = 1
  /\ sys_capq = FALSE
  /\ sys_cap = FALSE
  /\ lpel_global_config = WorkCfg
  /\ cpuset_workers = CreateCpusets(WorkCfg).workers
  /\ cpuset_others = CreateCpusets(WorkCfg).others
  /\ pcl_init = TRUE
  /\ workers = LpelWorkerInit(WorkCfg.num_workers, WorkCfg.node)
  /\ threads = LpelWorkerSpawn(WorkCfg.num_workers)
  /\ other = NoThread
  /\ terminate = FALSE
  /\ phase = "up"
  /\ init_call = [called |-> TRUE, cfg |-> WorkCfg, ret |-> CheckConfig(WorkCfg)]

WorkInit == LpelUpState /\ MonIdleState /\ WkInitState

\* LpelStop() by the application, once it has run all its tasks
AppStop == (\A t \in WTasks : tcb[t].run) /\ ~Aborted /\ LpelStop

WorkNext ==
  \/ \E t \in WTasks : LpelTaskRun(t)
  \/ AppStop
  \/ \E w \in Wks : WorkerDrain(w)
  \/ \E w \in Wks : WorkerExit(w)
  \/ \E w \in Wks : WorkerDispatch(w)
  \/ \E w \in Wks : WorkerReturn(w)
  \/ \E t \in WTasks : StreamWrite(t)
  \/ \E t \in WTasks, s \in Streams : StreamRead(t, s)
  \/ \E t \in WTasks : StreamPoll(t)
  \/ \E t \in WTasks : StreamPollResume(t)
  \/ \E t \in WTasks : LpelTaskYield(t)
  \/ \E t \in WTasks : LpelTaskExit(t)

WorkSpec == WorkInit /\ [][WorkNext]_vars

\* the worker threads are scheduled fairly by the operating system
WorkFairSpec == WorkSpec /\ \A w \in Wks : WF_vars(ThreadStep(w))

\* LpelTaskBlock(ct, block_on): the running task t records the reason, becomes
\* Blocked and switches to its worker, which writes the line of the dispatch
\* (LpelMonTaskStop)
LpelTaskBlock(t, block_on) ==
  /\ tstate[t] = TASK_RUNNING
  /\ current[mt[t].ctx] = t
  /\ blocked_on' = [blocked_on EXCEPT ![t] = block_on]
  /\ pending' = [pending EXCEPT ![t] = NoCall]
  /\ MonTaskStop(Heap, t, TASK_BLOCKED)
  /\ UNCHANGED <<monctx, nevents, lpel_vars, wk_vars>>

\* the reason a task blocks with on a descriptor of the given mode
BlockReason(mode) == IF mode = "r" THEN BLOCKED_ON_INPUT ELSE BLOCKED_ON_OUTPUT

\* the running owner of the monitored descriptor a reads it empty or writes it
\* full: the stream operation reports LpelMonStreamBlockon, which returns to
\* it; it blocks the task next
StreamBlocks(a) ==
  /\ OwnerRuns(a)
  /\ pending[ms[a].montask] = NoCall
  /\ LET H2 == LpelMonStreamBlockon(Heap, a)
     IN  ms' = H2.ms /\ mt' = H2.mt
  /\ nevents < MaxEvents
  /\ nevents' = nevents + 1
  /\ pending' = [pending EXCEPT ![ms[a].montask] = [cb |-> "block", ms |-> a]]
  /\ UNCHANGED <<monctx, trace, current, tstate, blocked_on, lpel_vars, wk_vars>>

\* the stream operation of task t that reported LpelMonStreamBlockon blocks the
\* task on its descriptor
MonitoredBlocks(t) ==
  /\ pending[t].cb = "block"
  /\ LpelTaskBlock(t, BlockReason(ms[pending[t].ms].mode))

\* a task that does not record streams has descriptors without a monitor
\* record (LpelMonStreamOpen returned NULL): it blocks with no callback
UnmonitoredBlocks(t, block_on) ==
  /\ ~FLAG_STREAMS(mt[t])
  /\ pending[t] = NoCall
  /\ LpelTaskBlock(t, block_on)

\* the running task t waits any-in: no callback is made for a poll
PollBlocks(t) ==
  /\ FLAG_STREAMS(mt[t]) =>
       \E a \in MsAddrs : ms[a].alloc /\ ms[a].montask = t /\ ms[a].mode = "r" /\
                          ms[a].state # ST_CLOSED
  /\ pending[t] = NoCall
  /\ LpelTaskBlock(t, BLOCKED_ON_ANYIN)

\* the monitoring state once the contexts and the tasks are created
\* (LpelMonContextCreate, LpelMonTaskCreate, LpelMonTaskAssign): every task is
\* Ready on a worker, no stream is open, nothing is written
MonInitState ==
  /\ \E fl \in [Tasks -> MonFlags], cx \in [Tasks -> Ctxs] :
       mt = [t \in Tasks |-> LpelMonTaskAssign(LpelMonTaskCreate(t, fl[t]), cx[t])]
  /\ ms = [a \in MsAddrs |-> FreeMs]
  /\ monctx = [c \in Ctxs |-> LpelMonContextCreate(c - 1)]
  /\ trace = [c \in Ctxs |-> <<>>]
  /\ current = [c \in Ctxs |-> NULL]
  /\ tstate = [t \in Tasks |-> TASK_READY]
  /\ nevents = 0
  /\ blocked_on = [t \in Tasks |-> ""]
  /\ pending = [t \in Tasks |-> NoCall]

\* the lifecycle state while only the monitoring module is exercised
LpelIdleState ==
  /\ LpelInitState
  /\ sys_nproc = 1
  /\ sys_capq = FALSE
  /\ sys_cap = FALSE

MonInit == LpelIdleState /\ MonInitState /\ WkIdleState

MonNext ==
  \/ \E t \in Tasks : LpelMonTaskStart(t)
  \/ \E t \in Tasks, state \in {TASK_READY, TASK_ZOMBIE} : LpelMonTaskStop(t, state)
  \/ \E a \in MsAddrs : StreamBlocks(a)
  \/ \E t \in Tasks : MonitoredBlocks(t)
  \/ \E t \in Tasks, block_on \in {BLOCKED_ON_INPUT, BLOCKED_ON_OUTPUT} :
       UnmonitoredBlocks(t, block_on)
  \/ \E t \in Tasks : PollBlocks(t)
  \/ \E t \in Tasks : LpelMonTaskDestroy(t)
  \/ \E t \in Tasks : LpelTaskUnblock(t)
  \/ \E t \in Tasks, sid \in Sids : LpelMonStreamOpen(t, sid, ModeOf(sid))
  \/ \E a \in MsAddrs : LpelMonStreamClose(a)
  \/ \E a \in MsAddrs, new_sid \in Sids : LpelMonStreamReplace(a, new_sid)
  \/ \E a \in MsAddrs : StreamMoves(a)
  \/ \E a \in MsAddrs : StreamWakes(a)
  \/ \E c \in Ctxs : LpelMonDebug(c)
  \/ \E c \in Ctxs : LpelMonContextDestroy(c)

MonSpec == MonInit /\ [][MonNext]_vars

Init == LpelInitState /\ MonIdleState /\ WkIdleState

Next ==
  \/ \E cfg \in Configs : LpelInit(cfg)
  \/ \E w \in WorkerIds, aff_ok \in BOOLEAN : WorkerThreadAssign(w, aff_ok)
  \/ \E aff_ok \in BOOLEAN : OtherThreadAssign(aff_ok)
  \/ LpelStop
  \/ LpelCleanup

Spec == Init /\ [][Next]_vars

(***************************************************************************)
(* Claims about the lifecycle module (checked under Spec).                 *)
(***************************************************************************)
HasFlag(cfg, f) == BitAnd(cfg.flags, f) = f

\* the configuration passes every check but those on the flags
OtherwiseValid(cfg) ==
  /\ cfg.num_workers > 0
  /\ cfg.proc_workers > 0
  /\ cfg.proc_others >= 0
  /\ (sys_nproc = -1 \/ cfg.proc_workers + cfg.proc_others <= sys_nproc)

NoWorkerStarted ==
  /\ workers.n = 0
  /\ \A w \in WorkerIds : threads[w].st = "none"

\* C1: whenever the core count is known and proc_workers + proc_others exceeds
\* it, the last LpelInit returned LPEL_ERR_INVAL, whatever the other fields are.
C1_TooFewCoresIsInval ==
  (init_call.called /\ sys_nproc # -1
     /\ init_call.cfg.proc_workers + init_call.cfg.proc_others > sys_nproc)
  => init_call.ret = LPEL_ERR_INVAL

\* C1 witness: a configuration that only the core count rejects
C1_Witness ==
  /\ init_call.called /\ sys_nproc # -1
  /\ init_call.cfg.num_workers > 0 /\ init_call.cfg.proc_workers > 0
  /\ init_call.cfg.proc_others >= 0 /\ init_call.cfg.flags = 0
  /\ init_call.cfg.proc_workers + init_call.cfg.proc_others > sys_nproc
  /\ init_call.ret = LPEL_ERR_INVAL

\* C2: EXCLUSIVE without PINNED is rejected with LPEL_ERR_INVAL, whether or not
\* the process holds the capability (never LPEL_ERR_EXCL).
C2_ExclusiveNeedsPinned ==
  (init_call.called /\ HasFlag(init_call.cfg, LPEL_FLAG_EXCLUSIVE)
     /\ ~HasFlag(init_call.cfg, LPEL_FLAG_PINNED))
  => init_call.ret = LPEL_ERR_INVAL

\* C2 witness: EXCLUSIVE alone, everything else valid, capability known to be missing
C2_Witness ==
  /\ init_call.called /\ OtherwiseValid(init_call.cfg)
  /\ init_call.cfg.flags = LPEL_FLAG_EXCLUSIVE
  /\ sys_capq /\ ~sys_cap
  /\ init_call.ret = LPEL_ERR_INVAL

\* C3 as stated: an otherwise valid EXCLUSIVE|PINNED configuration on a process
\* without the capability is rejected with LPEL_ERR_EXCL and starts no worker.
C3_Original ==
  (init_call.called /\ OtherwiseValid(init_call.cfg)
     /\ HasFlag(init_call.cfg, LPEL_FLAG_EXCLUSIVE)
     /\ HasFlag(init_call.cfg, LPEL_FLAG_PINNED)
     /\ ~sys_cap)
  => (init_call.ret = LPEL_ERR_EXCL /\ NoWorkerStarted)

\* C3 amended: the same, provided the capability query itself succeeds; when the
\* query is not available the permission is not checked and the configuration is
\* accepted.
C3_ExclusiveDenied ==
  (init_call.called /\ OtherwiseValid(init_call.cfg)
     /\ HasFlag(init_call.cfg, LPEL_FLAG_EXCLUSIVE)
     /\ HasFlag(init_call.cfg, LPEL_FLAG_PINNED)
     /\ ~sys_cap)
  => IF sys_capq
     THEN init_call.ret = LPEL_ERR_EXCL /\ NoWorkerStarted /\ phase = "down"
     ELSE init_call.ret = 0

\* C3 witness: the query works, the capability is missing, Init answered ERR_EXCL
C3_Witness ==
  /\ init_call.called /\ OtherwiseValid(init_call.cfg)
  /\ init_call.cfg.flags = BitOr(LPEL_FLAG_PINNED, LPEL_FLAG_EXCLUSIVE)
  /\ sys_capq /\ ~sys_cap
  /\ init_call.ret = LPEL_ERR_EXCL
  /\ NoWorkerStarted

\* C4 as stated: a step in which LpelInit rejects its configuration changes
\* neither the stored configuration, the CPU sets, the coroutine library state
\* nor the worker state.
C4_RejectMutatesNothing ==
  [][(init_call' # init_call /\ init_call'.called /\ init_call'.ret # 0)
       => UNCHANGED <<lpel_global_config, cpuset_workers, cpuset_others, pcl_init,
                      workers, threads>>]_vars

\* C5 as stated: with PINNED, two different workers whose LpelThreadAssign
\* succeeded are pinned to different cores.
C5_Original ==
  \A w1, w2 \in WorkerIds :
    (w1 # w2 /\ HasFlag(lpel_global_config, LPEL_FLAG_PINNED)
       /\ threads[w1].st = "assigned" /\ threads[w2].st = "assigned")
    => threads[w1].affinity # threads[w2].affinity

\* C5 amended: with PINNED, worker w is pinned to the single core
\* w mod proc_workers, so two workers get different cores exactly when their ids
\* differ modulo proc_workers; all workers get distinct cores when
\* num_workers <= proc_workers.
C5_PinnedModulo ==
  \A w1, w2 \in WorkerIds :
    (w1 # w2 /\ HasFlag(lpel_global_config, LPEL_FLAG_PINNED)
       /\ threads[w1].st = "assigned" /\ threads[w2].st = "assigned")
    => /\ threads[w1].affinity = {w1 % lpel_global_config.proc_workers}
       /\ (threads[w1].affinity # threads[w2].affinity
             <=> w1 % lpel_global_config.proc_workers
                   # w2 % lpel_global_config.proc_workers)
       /\ (lpel_global_config.num_workers <= lpel_global_config.proc_workers
             => threads[w1].affinity # threads[w2].affinity)

\* C5 witness: two pinned workers on two different cores
C5_Witness ==
  /\ HasFlag(lpel_global_config, LPEL_FLAG_PINNED)
  /\ threads[0].st = "assigned" /\ threads[1].st = "assigned"
  /\ threads[0].affinity = {0} /\ threads[1].affinity = {1}

\* C6: a worker thread that LpelThreadAssign pinned or assigned had its scheduling
\* class raised (sched_setscheduler called) exactly when EXCLUSIVE is set.
C6_RealTimeIffExclusive ==
  \A w \in WorkerIds :
    threads[w].st = "assigned"
    => (threads[w].rt <=> HasFlag(lpel_global_config, LPEL_FLAG_EXCLUSIVE))

\* C7 as stated: after a successful LpelInit no worker thread has been started
\* (there is no separate spawn call in the module, so none can have preceded).
C7_Original ==
  (init_call.called /\ init_call.ret = 0 /\ phase = "up")
  => \A w \in WorkerIds : threads[w].st = "none"

\* C7 amended: worker threads are started by LpelInit itself: after a successful
\* LpelInit the coroutine library and num_workers workers are initialised and
\* exactly the workers 0 .. num_workers-1 have a started thread; a rejected
\* LpelInit starts none.
C7_InitSpawns ==
  /\ (init_call.called /\ init_call.ret = 0 /\ phase = "up")
     => /\ pcl_init
        /\ workers.n = init_call.cfg.num_workers
        /\ \A w \in WorkerIds :
             threads[w].st # "none" <=> w < init_call.cfg.num_workers
  /\ (init_call.called /\ init_call.ret # 0) => NoWorkerStarted

\* C7 witness: LpelInit has just returned 0 and the threads exist but have not run
C7_Witness ==
  /\ init_call.called /\ init_call.ret = 0 /\ phase = "up"
  /\ init_call.cfg.num_workers = 2
  /\ threads[0].st = "spawned" /\ threads[1].st = "spawned"

(***************************************************************************)
(* Claims about the monitoring module (checked under MonSpec).             *)
(***************************************************************************)
\* the positions of the lines of task tid in the trace file of context c
LinesOf(c, tid) == {i \in DOMAIN trace[c] : trace[c][i].tid = tid}

\* the lines of context c written for a dispatch (the others are debug lines)
DispatchLines(c) == {i \in DOMAIN trace[c] : trace[c][i] # DebugLine}

\* the dispatches of task t that have been stopped
StoppedDispatches(t) == mt[t].disp - (IF tstate[t] = TASK_RUNNING THEN 1 ELSE 0)

\* C8: every stopped dispatch has written exactly one line (per context and per
\* task; debug lines are not lines of a dispatch), and the k-th line of a task,
\* wherever the lines of other tasks and the debug lines fall, prints disp k:
\* disp grows by one from each line of the task to its next.
C8_OneLinePerDispatch ==
  \A c \in Ctxs :
    /\ Cardinality(DispatchLines(c)) = monctx[c].disp - (IF current[c] # NULL THEN 1 ELSE 0)
    /\ \A t \in Tasks :
         /\ \A i \in LinesOf(c, t) :
              trace[c][i].disp = Cardinality({j \in LinesOf(c, t) : j <= i})
         /\ (mt[t].alloc /\ mt[t].ctx = c)
              => Cardinality(LinesOf(c, t)) = StoppedDispatches(t)

\* C8 witness: two lines of task 1 with a line of task 2 between them
C8_Witness ==
  \E c \in Ctxs :
    /\ Len(trace[c]) = 3
    /\ trace[c][1].tid = 1 /\ trace[c][1].disp = 1
    /\ trace[c][2].tid = 2 /\ trace[c][2].disp = 1
    /\ trace[c][3].tid = 1 /\ trace[c][3].disp = 2

\* the descriptors reached from p by following the dirty links, at most fuel of them
RECURSIVE DirtyFrom(_, _)
DirtyFrom(p, fuel) ==
  IF p \in MsAddrs /\ fuel > 0 THEN <<p>> \o DirtyFrom(ms[p].dirty, fuel - 1) ELSE <<>>

\* the link at which that walk stops
RECURSIVE DirtyEnd(_, _)
DirtyEnd(p, fuel) ==
  IF p \in MsAddrs /\ fuel > 0 THEN DirtyEnd(ms[p].dirty, fuel - 1) ELSE p

DirtySeq(t) == DirtyFrom(mt[t].dirty_list, MaxMs + 1)
DirtySet(t) == {DirtySeq(t)[i] : i \in DOMAIN DirtySeq(t)}

\* C9: the dirty list of every task is a chain of distinct live descriptors of
\* that task ending in ST_DIRTY_END, and a descriptor's dirty link is NULL
\* exactly when the descriptor is not on the list of its task.
C9_DirtyListWellFormed ==
  /\ \A t \in Tasks :
       mt[t].alloc =>
         /\ DirtyEnd(mt[t].dirty_list, MaxMs + 1) = ST_DIRTY_END
         /\ Cardinality(DirtySet(t)) = Len(DirtySeq(t))
         /\ \A a \in DirtySet(t) : ms[a].alloc /\ ms[a].montask = t
  /\ \A a \in MsAddrs :
       (ms[a].alloc /\ mt[ms[a].montask].alloc)
         => (ms[a].dirty = NULL <=> a \notin DirtySet(ms[a].montask))

\* C9 witness: a dirty list of two descriptors, one of them marked by two events
C9_Witness ==
  \E t \in Tasks :
    /\ mt[t].alloc
    /\ Len(DirtySeq(t)) = 2
    /\ \E a \in DirtySet(t) : ms[a].state = ST_OPENED /\ ms[a].event_flags # 0

\* the next line of the same task after line i of context c, or 0
NextLineOf(c, i) ==
  LET later == {j \in LinesOf(c, trace[c][i].tid) : j > i}
  IN  IF later = {} THEN 0 ELSE CHOOSE j \in later : \A k \in later : j <= k

\* C10 as stated: when a line lists a descriptor with state R (it was replaced in
\* that dispatch), the line of the following dispatch of the same task lists that
\* descriptor (same sid and mode) with state I.
C10_Original ==
  \A c \in Ctxs : \A i \in DOMAIN trace[c] :
    NextLineOf(c, i) # 0 =>
      \A k \in DOMAIN trace[c][i].list :
        trace[c][i].list[k].state = ST_REPLACED =>
          \E m \in DOMAIN trace[c][NextLineOf(c, i)].list :
            /\ trace[c][NextLineOf(c, i)].list[m].sid = trace[c][i].list[k].sid
            /\ trace[c][NextLineOf(c, i)].list[m].mode = trace[c][i].list[k].mode
            /\ trace[c][NextLineOf(c, i)].list[m].state = ST_INUSE

\* the step is LpelMonTaskStop of task t, called with the dirty list of the
\* state it starts in (no callback is made in the step)
StopStep(t) == tstate[t] = TASK_RUNNING /\ tstate'[t] # TASK_RUNNING

\* the line that step appends
NewLine(t) == trace'[mt[t].ctx][Len(trace'[mt[t].ctx])]

\* the descriptors of task t that are marked dirty
DirtyOf(t) == {a \in MsAddrs : ms[a].alloc /\ ms[a].montask = t /\ ms[a].dirty # NULL}

\* C10 amended: a replaced descriptor stays on the dirty list with state R (or C,
\* if it is closed later in the dispatch) until its task stops; the line of a
\* dispatch lists exactly the descriptors marked dirty in it, each with the sid
\* and state it has at the stop, so a descriptor replaced and not closed is
\* listed with R and the new sid and is InUse afterwards; the line of a later
\* dispatch lists it with I only if an event marks it dirty there and it is not
\* replaced or closed again, and does not list it when no event marks it.
C10_ReplacedThenInUse ==
  /\ [](\A a \in MsAddrs :
          (ms[a].alloc /\ ms[a].state = ST_REPLACED) => ms[a].dirty # NULL)
  /\ [][\A t \in Tasks :
          (StopStep(t) /\ FLAG_STREAMS(mt[t])) =>
            /\ Len(NewLine(t).list) = Cardinality(DirtyOf(t))
            /\ \A a \in DirtyOf(t) :
                 /\ \E k \in DOMAIN NewLine(t).list :
                      /\ NewLine(t).list[k].sid = ms[a].sid
                      /\ NewLine(t).list[k].mode = ms[a].mode
                      /\ NewLine(t).list[k].state = ms[a].state
                 /\ ms[a].state \in {ST_REPLACED, ST_INUSE} =>
                      /\ ms'[a].alloc
                      /\ ms'[a].sid = ms[a].sid
                      /\ ms'[a].state = ST_INUSE
                      /\ ms'[a].dirty = NULL]_vars

\* C10 witness: a line lists a descriptor with R and sid 2, and the next line of
\* the task lists the same sid with I
C10_Witness ==
  \E c \in Ctxs : \E i \in DOMAIN trace[c] :
    /\ NextLineOf(c, i) # 0
    /\ \E k \in DOMAIN trace[c][i].list :
         /\ trace[c][i].list[k].state = ST_REPLACED
         /\ trace[c][i].list[k].sid = 2
         /\ \E m \in DOMAIN trace[c][NextLineOf(c, i)].list :
              /\ trace[c][NextLineOf(c, i)].list[m].sid = 2
              /\ trace[c][NextLineOf(c, i)].list[m].state = ST_INUSE

\* the last line written for task t in context c (0 when there is none)
LastLineOf(c, t) ==
  IF LinesOf(c, t) = {} THEN 0
  ELSE CHOOSE i \in LinesOf(c, t) : \A j \in LinesOf(c, t) : j <= i

\* the task reached Zombie (and may have been destroyed since)
ReachedZombie(t) == tstate[t] \in {TASK_ZOMBIE, "gone"}

\* C11 as stated: the last line of every task that reached Zombie reports state
\* Z and has a creat field, and no line of a stop in another state has one.
C11_Original ==
  /\ \A t \in Tasks :
       ReachedZombie(t) =>
         \E c \in Ctxs :
           /\ LastLineOf(c, t) # 0
           /\ trace[c][LastLineOf(c, t)].st = TASK_ZOMBIE
           /\ trace[c][LastLineOf(c, t)].creat
  /\ \A c \in Ctxs : \A i \in DOMAIN trace[c] :
       trace[c][i].st # TASK_ZOMBIE => ~trace[c][i].creat

\* C11 amended: the last line of every task that reached Zombie reports state Z;
\* it has a creat field exactly when the task records times (the line then has
\* an et field too); no line of a stop in another state has a creat field.
C11_ZombieLineCreat ==
  /\ \A t \in Tasks :
       ReachedZombie(t) =>
         \E c \in Ctxs :
           /\ LastLineOf(c, t) # 0
           /\ trace[c][LastLineOf(c, t)].st = TASK_ZOMBIE
           /\ trace[c][LastLineOf(c, t)].creat = trace[c][LastLineOf(c, t)].et
           /\ mt[t].alloc =>
                trace[c][LastLineOf(c, t)].creat = FLAG_TIMES(mt[t])
  /\ \A c \in Ctxs : \A i \in DOMAIN trace[c] :
       trace[c][i].st # TASK_ZOMBIE => ~trace[c][i].creat

\* C11 witness: a task recording times was stopped Ready, without a creat field,
\* and then Zombie, with one
C11_Witness ==
  \E t \in Tasks : \E c \in Ctxs : \E i \in LinesOf(c, t) :
    /\ tstate[t] = TASK_ZOMBIE
    /\ FLAG_TIMES(mt[t])
    /\ i < LastLineOf(c, t)
    /\ trace[c][i].st = TASK_READY /\ trace[c][i].et /\ ~trace[c][i].creat
    /\ trace[c][LastLineOf(c, t)].st = TASK_ZOMBIE
    /\ trace[c][LastLineOf(c, t)].creat

\* the step drains the dirty descriptor a: a Closed one is freed and no list
\* reaches it afterwards, any other is InUse, unlinked and without event flags
DrainedBy(a) ==
  IF ms[a].state = ST_CLOSED
  THEN /\ ~ms'[a].alloc
       /\ \A u \in Tasks : mt'[u].dirty_list # a
       /\ \A b \in MsAddrs : ms'[b].alloc => ms'[b].dirty # a
  ELSE /\ ms'[a].alloc
       /\ ms'[a].state = ST_INUSE
       /\ ms'[a].dirty = NULL
       /\ ms'[a].event_flags = 0

\* C18: a step LpelMonTaskStop of a task that records streams prints the
\* entries of its dirty list in list order, each once, leaves the list equal to
\* the sentinel, leaves every entry that was not Closed allocated, InUse, with a
\* NULL dirty link and no event flags, and frees every Closed entry, which no
\* dirty list reaches afterwards; this includes the stop of a task that blocks.
C18_StopDrainsDirtyList ==
  [][\A t \in Tasks :
       (StopStep(t) /\ FLAG_STREAMS(mt[t])) =>
         /\ mt'[t].dirty_list = ST_DIRTY_END
         /\ Cardinality(DirtySet(t)) = Len(DirtySeq(t))
         /\ NewLine(t).list =
              [k \in 1 .. Len(DirtySeq(t)) |-> StreamEntry(ms[DirtySeq(t)[k]])]
         /\ \A a \in DirtySet(t) : DrainedBy(a)]_vars

\* C18 witness: a task was stopped with an Opened and a Closed descriptor on its
\* list; both were printed, the list is empty, one descriptor survives InUse
C18_Witness ==
  \E t \in Tasks : \E c \in Ctxs :
    /\ tstate[t] = TASK_READY
    /\ mt[t].dirty_list = ST_DIRTY_END
    /\ LastLineOf(c, t) # 0
    /\ Len(trace[c][LastLineOf(c, t)].list) = 2
    /\ \E k, m \in 1 .. 2 :
         /\ trace[c][LastLineOf(c, t)].list[k].state = ST_CLOSED
         /\ trace[c][LastLineOf(c, t)].list[m].state = ST_OPENED
    /\ \E a \in MsAddrs :
         /\ ms[a].alloc /\ ms[a].montask = t /\ ms[a].state = ST_INUSE
         /\ ms[a].dirty = NULL /\ ms[a].event_flags = 0
         /\ \A b \in MsAddrs \ {a} : ~ms[b].alloc

(***************************************************************************)
(* Claims about workers, tasks and streams (checked under WorkSpec and     *)
(* WorkFairSpec).                                                          *)
(***************************************************************************)
\* the positions <<w, i>> at which task t is linked into a ready queue
QueueLinks(t) ==
  {p \in UNION {{<<w, i>> : i \in DOMAIN readyq[w]} : w \in WorkerIds} :
     readyq[p[1]][p[2]] = t}

\* C12: no task is linked more than once into the ready queues of all workers
\* together, whatever the interleaving of the worker threads.
C12_AtMostOneReadyQueue ==
  \A t \in WTasks : Cardinality(QueueLinks(t)) <= 1

\* the items 1 .. n in the order in which a producer writes them
Written(n) == [k \in 1 .. n |-> k]

\* the producer task of stream s
ProducerOf(s) == s + 1

\* C13: on every stream the items read so far followed by the items in the
\* buffer are exactly the items written so far, in the order written; so the
\* sequence read is a prefix of the sequence written.
C13_StreamFifo ==
  \A s \in Streams :
    /\ rd[s] \o stream[s].buf = Written(tcb[ProducerOf(s)].n)
    /\ Len(stream[s].buf) <= StreamCap

\* C13 witness: a producer on another worker than the consumer filled its
\* stream, blocked on it and was woken by the read of item 1; the buffer holds
\* the two items written after it, the older one first
C13_Witness ==
  \E s \in Streams :
    /\ tcb[ProducerOf(s)].worker_context # tcb[Consumer].worker_context
    /\ tcb[ProducerOf(s)].wakes = 1
    /\ rd[s] = <<1>>
    /\ stream[s].buf = <<2, 3>>

\* the wait slots that hold task t
SlotsOf(t) ==
  {<<s, "p">> : s \in {x \in Streams : stream[x].prod_wait = t}} \cup
  {<<s, "c">> : s \in {x \in Streams : stream[x].cons_wait = t}}

\* the task t blocked on a stream operation and has not been dispatched since
Waiting(t) ==
  tcb[t].blocked_on # "" /\ tcb[t].state \in {TASK_BLOCKED, TASK_READY}

\* the peer of the waiting task t has produced to (consumed from) a stream t
\* waits on since t blocked: t was taken out of a slot of its wait, or the
\* stream t waits on is not empty (not full) any more
PeerActed(t) ==
  /\ Waiting(t)
  /\ \/ tcb[t].blocked_on = BLOCKED_ON_OUTPUT /\
          (SlotsOf(t) = {} \/ Len(stream[StreamOf(t)].buf) < StreamCap)
     \/ tcb[t].blocked_on = BLOCKED_ON_INPUT /\
          (SlotsOf(t) = {} \/ \E s \in Streams : stream[s].cons_wait = t /\ stream[s].buf # <<>>)
     \/ tcb[t].blocked_on = BLOCKED_ON_ANYIN /\
          (\E s \in Streams : stream[s].cons_wait # t)

\* a wakeup message for task t waits in the mailbox of its owner
WakeupPending(t) ==
  \E i \in DOMAIN mailbox[tcb[t].worker_context] :
    mailbox[tcb[t].worker_context][i] = [type |-> "wakeup", task |-> t]

\* task t is Ready and linked into the ready queue of its owner
ReadyOnOwner(t) ==
  /\ tcb[t].state = TASK_READY
  /\ \E i \in DOMAIN readyq[tcb[t].worker_context] : readyq[tcb[t].worker_context][i] = t

\* the task has come back from its run and its worker has not yet passed
\* step 5 for it
Returning(t) ==
  wctx[tcb[t].worker_context].pc = "ret" /\ wctx[tcb[t].worker_context].cur = t

\* C14: once the peer of a Blocked task has produced to (consumed from) the
\* stream the task waits on, the wakeup was delivered: the task is Ready, and
\* it is linked in a ready queue, or its wakeup is in the mailbox of its owner,
\* or its worker is about to append it; and with fair worker threads the task
\* becomes Ready on the ready queue of its owner.
C14_NoLostWakeup ==
  /\ [](\A t \in WTasks :
         PeerActed(t) =>
           /\ tcb[t].state = TASK_READY
           /\ WakeupPending(t) \/ QueueLinks(t) # {} \/ Returning(t))
  /\ \A t \in WTasks : PeerActed(t) ~> ReadyOnOwner(t)

\* the wakeup messages for task t in the mailbox of its owner
WakeupMsgs(t) ==
  {i \in DOMAIN mailbox[tcb[t].worker_context] :
     mailbox[tcb[t].worker_context][i] = [type |-> "wakeup", task |-> t]}

\* task t is in an any-in wait or has been woken from it and not resumed yet
InAnyInWait(t) ==
  tcb[t].state \in {TASK_BLOCKED, TASK_READY, TASK_RUNNING} /\
  tcb[t].blocked_on = BLOCKED_ON_ANYIN

BlocksProducer(p) == tcb[p].state = TASK_RUNNING /\ tcb'[p].state = TASK_BLOCKED

\* the step is a read of stream s that finds the producer p in the
\* producer-waiting slot
ReadsPast(s, p) == rd'[s] # rd[s] /\ stream[s].prod_wait = p

ExitStep(w) == wctx[w].pc # "exit" /\ wctx'[w].pc = "exit"

\* the body of every task has returned
AllReturned == \A t \in WTasks : tcb[t].state \in {TASK_ZOMBIE, "gone"}

\* C17: a worker leaves its dispatch loop only after LpelStop, with an empty
\* ready queue, termination requested and every task it owns destroyed; and
\* once LpelStop was called and the body of every task has returned, with fair
\* worker threads every worker leaves its loop and every task is destroyed.
C17_GracefulStop ==
  /\ [][\A w \in Wks :
          ExitStep(w) =>
            /\ phase = "stopping"
            /\ wctx[w].terminate
            /\ readyq[w] = <<>>
            /\ \A t \in WTasks : tcb[t].worker_context = w => tcb[t].state = "gone"]_vars
  /\ (phase = "stopping" /\ AllReturned) ~>
       ((\A w \in Wks : wctx[w].pc = "exit") /\ (\A t \in WTasks : tcb[t].state = "gone"))

\* the task has been placed on its worker and is not destroyed
Live(t) == tcb[t].state \in {TASK_READY, TASK_RUNNING, TASK_BLOCKED, TASK_ZOMBIE}

\* 1 when the condition holds, else 0
Count(b) == IF b THEN 1 ELSE 0

\* the task is the current task of its worker and Running
IsRunning(t) == tcb[t].state = TASK_RUNNING /\ wctx[tcb[t].worker_context].cur = t

\* C19 as stated: every live task is in exactly one place, counting each link
\* in a ready queue and each wait slot that holds it as a place, also during an
\* any-in wait.
C19_Original ==
  \A t \in WTasks :
    Live(t) =>
      Cardinality(QueueLinks(t)) + Cardinality(SlotsOf(t)) + Count(IsRunning(t))
        + Count(tcb[t].state = TASK_ZOMBIE) = 1

\* the step delivers a wakeup to task t: the peer bumps its poll token
WakesUp(t) == tcb'[t].poll_token = tcb[t].poll_token + 1

\* C20: a step changes the ready queue of a worker only if it is a step of the
\* thread of that worker (of its dispatch loop or of the task it runs); a
\* wakeup delivered by the thread of another worker than the owner of the task
\* changes no ready queue and adds one wakeup message for the task to the
\* mailbox of its owner; a wakeup delivered by the thread of the owner appends
\* the task to the local queue and posts nothing.
C20_ReadyQueuePrivate ==
  [][/\ \A w \in WorkerIds : readyq'[w] # readyq[w] => (w \in Wks /\ ThreadStep(w))
     /\ \A t \in WTasks :
          WakesUp(t) =>
            IF ThreadStep(tcb[t].worker_context)
            THEN /\ mailbox' = mailbox
                 /\ readyq' = [readyq EXCEPT ![tcb[t].worker_context] = Append(@, t)]
            ELSE /\ readyq' = readyq
                 /\ mailbox' = [mailbox EXCEPT ![tcb[t].worker_context] =
                                  Append(@, [type |-> "wakeup", task |-> t])]]_vars

\* C20 witness: a task woken from another worker has been handed over by a
\* message and appended by its owner: it is Ready on the queue of its owner,
\* whose mailbox is drained, while its peer still runs on the other worker
C20_Witness ==
  \E t \in Producers :
    /\ tcb[t].worker_context # tcb[Consumer].worker_context
    /\ tcb[t].wakes = 1
    /\ ReadyOnOwner(t)
    /\ mailbox[tcb[t].worker_context] = <<>>
    /\ IsRunning(Consumer)

(***************************************************************************)
(* Claims about the block reason and the event flags in the trace (checked *)
(* under MonSpec).                                                         *)
(***************************************************************************)
\* the step stops task t in state Blocked and writes its line
BlockedStop(t) == tstate[t] = TASK_RUNNING /\ tstate'[t] = TASK_BLOCKED

\* C21: the line written when a task stops Blocked prints, after B, the reason
\* the task blocked with (i on input, o on output, a on any-in), whatever the
\* monitor flags of the task and the stream events of the dispatch.
C21_SubReasonIsBlockReason ==
  [][\A t \in Tasks :
       BlockedStop(t) =>
         /\ NewLine(t).tid = t
         /\ NewLine(t).st = TASK_BLOCKED
         /\ NewLine(t).sub = blocked_on'[t]]_vars

\* the step stops task t: LpelMonTaskStop writes its line
AnyStop(t) == tstate[t] = TASK_RUNNING /\ tstate'[t] # TASK_RUNNING

\* the monitor records of task t on which an event is recorded
Flagged(t) == {a \in MsAddrs : ms[a].alloc /\ ms[a].montask = t /\ ms[a].event_flags # 0}

\* the printed tuple e shows the events recorded on the monitor record a
Shows(e, a) ==
  /\ e.sid = ms[a].sid
  /\ e.mode = ms[a].mode
  /\ BitAnd(ms[a].event_flags, ST_BLOCKON) # 0 => e.ev[1] = "?"
  /\ BitAnd(ms[a].event_flags, ST_WAKEUP) # 0 => e.ev[2] = "!"
  /\ BitAnd(ms[a].event_flags, ST_MOVED) # 0 => e.ev[3] = "*"

\* C22: when LpelMonTaskStop is called for a task, every monitor record of the
\* task with an event recorded (event_flags # 0) is on the dirty list of the
\* task, so that the event is printed in the line of this dispatch and no
\* record of the task keeps an event flag for a later dispatch.  A record has
\* an event recorded without being on the dirty list only after
\* LpelMonStreamWakeup returned and before the stream operation of its running
\* owner has called LpelMonStreamMoved on it.
C22_FlaggedIsDirty ==
  /\ [](\A a \in MsAddrs :
          (ms[a].alloc /\ ms[a].event_flags # 0 /\ ms[a].dirty = NULL) =>
            /\ tstate[ms[a].montask] = TASK_RUNNING
            /\ pending[ms[a].montask] = [cb |-> "moved", ms |-> a])
  /\ [][\A t \in Tasks :
          (AnyStop(t) /\ FLAG_STREAMS(mt[t])) =>
            /\ Flagged(t) \subseteq DirtySet(t)
            /\ \A a \in Flagged(t) :
                 \E k \in 1 .. Len(NewLine(t).list) : Shows(NewLine(t).list[k], a)
            /\ \A a \in MsAddrs :
                 (ms'[a].alloc /\ ms'[a].montask = t) => ms'[a].event_flags = 0]_vars

\* C22 witness: a line shows a descriptor with both a wakeup and a moved event
\* (the wakeup was recorded without MarkDirty, the moved event of the same
\* stream operation put the descriptor on the dirty list), and after the stop
\* no descriptor keeps an event flag.
C22_Witness ==
  /\ \E c \in Ctxs : \E i \in DOMAIN trace[c] :
       /\ trace[c][i].streams
       /\ \E k \in DOMAIN trace[c][i].list :
            trace[c][i].list[k].ev[2] = "!" /\ trace[c][i].list[k].ev[3] = "*"
  /\ \A a \in MsAddrs : ms[a].alloc => ms[a].event_flags = 0

====
